---- MODULE Spec2Model ----
(***************************************************************************)
(* Request lifecycle and provisioning of the AMP Discord bot.              *)
(*                                                                         *)
(* The store (database/db.py), the admin decisions (cogs/admin.py), the    *)
(* requester commands and the hourly sweep (cogs/game_requests.py) and     *)
(* the panel client (services/amp_service.py) are modelled as one state    *)
(* machine.  Every await between a handler's read of a request and its     *)
(* write is a point where other handlers run, so a handler is a sequence   *)
(* of actions joined by the handler's position (pc).                       *)
(***************************************************************************)
EXTENDS Integers, Sequences, FiniteSets, TLC

VARIABLES
    requests,      \* table game_requests: row id is the index
    amp_users,     \* table amp_users (the ledger)
    connected,     \* AMPService._connected
    panelUsers,    \* accounts that exist on the panel
    createReturned,\* handles for which a Core.create_user call has returned
                   \* success (either shape), a timeout or 'already exists'
    instances,     \* deployments the panel has acknowledged as started
    task,          \* per admin, the handler that admin has in flight
    reply,         \* the last response a handler sent to its caller
    panel,         \* the panel call made in the last step and its outcome
    dm,            \* the credentials DM delivered in the last step, if any
    session_id,    \* AMPService.session_id (HTTP transport)
    panelSessions, \* the session tokens the panel accepts
    loginsSent,    \* Core/Login requests sent so far
    http,          \* per caller, the HTTP-transport call in flight
    returned,      \* the HTTP-transport call that returned in the last step
    TEMPLATE_IDS,  \* config/templates.py TEMPLATE_IDS, the module's dict
    payload,       \* the DeployTemplate payload built in the last step
    submitting,    \* per interaction, the submit handler in flight
    now            \* the clock, in hours

(* the bot and the panel as the handlers see them *)
botVars == <<requests, amp_users, connected, panelUsers, createReturned,
             instances, task, reply, panel, dm, now>>

(* the HTTP transport of AMPService *)
httpVars == <<session_id, panelSessions, loginsSent, http, returned>>

(* the in-memory template mapping and what a deployment takes from it *)
cfgVars == <<TEMPLATE_IDS, payload>>

(* submit handlers suspended between their quota check and their insert *)
submitVars == <<submitting>>

vars == <<botVars, httpVars, cfgVars, submitVars>>

----------------------------------------------------------------------------
(* Bounds of the model *)

MaxRequests == 1
MaxDeploys == 2
MaxTime == 25
TickHours == 25
MaxSubmits == 4
MaxSwept == 2
MaxStored == 2
MaxTemplateId == 5

(* Program constants *)

request_timeout_hours == 24
max_pending_requests_per_user == 3

Admins == {7, 8}
Users == {42}
Cancellers == {42, 43}
Reasons == {"insufficient quota"}
AVAILABLE_GAMES == {"minecraft", "ark", "cs2", "gmod"}
SubmittedGames == {"minecraft"}
ButtonGames == {"minecraft", "ark"}
SlashGames == {"minecraft", "Minecraft", "ark", "tetris"}

----------------------------------------------------------------------------
(* Optional values: None is NULL / Python None *)

None == << >>
Some(x) == <<x>>

PENDING == "pending"
APPROVED == "approved"
REJECTED == "rejected"
EXPIRED == "expired"

(* a variant that finds an entry for every name *)
get_game_by_name_any(name) == Some(name)

(* config/games.py: get_game_by_name finds the catalog entry or nothing *)
get_game_by_name(name) ==
    IF name \in AVAILABLE_GAMES THEN Some(name) ELSE None

(* config/templates.py: TEMPLATE_IDS as the module defines it *)
BuiltInTemplates ==
    [g \in AVAILABLE_GAMES |->
        CASE g = "minecraft" -> 1
          [] g = "ark" -> 3
          [] g = "cs2" -> 5
          [] g = "gmod" -> 4]

DEFAULT_TEMPLATE_ID == 1

(* discord members: user.name *)
UserName(u) ==
    CASE u = 42 -> "alice"
      [] u = 44 -> "the_quick_brown_fox_jumps"
      [] u = 45 -> "the_quick_brown_fox_naps"
      [] u = 46 -> "Carol Ann"
      [] OTHER -> "bob"

(* user.discriminator: "0" since discriminators were retired, four digits *)
(* on an account that still has one                                        *)
discriminator(u) == IF u = 46 THEN "1234" ELSE "0"

Upper == "ABCDEFGHIJKLMNOPQRSTUVWXYZ"
Lower == "abcdefghijklmnopqrstuvwxyz"

char_lower(c) ==
    IF \E i \in 1..Len(Upper) : SubSeq(Upper, i, i) = c
    THEN LET i == CHOOSE i \in 1..Len(Upper) : SubSeq(Upper, i, i) = c
         IN SubSeq(Lower, i, i)
    ELSE c

(* str.lower() *)
RECURSIVE str_lower(_)
str_lower(s) ==
    IF Len(s) = 0 THEN ""
    ELSE char_lower(SubSeq(s, 1, 1)) \o str_lower(SubSeq(s, 2, Len(s)))

(* str.replace(" ", "_") *)
RECURSIVE replace_spaces(_)
replace_spaces(s) ==
    IF Len(s) = 0 THEN ""
    ELSE (IF SubSeq(s, 1, 1) = " " THEN "_" ELSE SubSeq(s, 1, 1))
             \o replace_spaces(SubSeq(s, 2, Len(s)))

(* the panel's limit on the length of a username *)
amp_username_limit == 20

(* cogs/admin.py _process_approval: the account handle of a requester:   *)
(* name and discriminator, or name and id, lower-cased, spaces replaced, *)
(* cut to the panel's limit                                               *)
derive_amp_username(u) ==
    LET derived == replace_spaces(str_lower(
                       IF discriminator(u) # "0"
                       THEN UserName(u) \o "_" \o discriminator(u)
                       ELSE UserName(u) \o "_" \o ToString(u)))
    IN IF Len(derived) <= amp_username_limit THEN derived
       ELSE SubSeq(derived, 1, amp_username_limit)

(* the members of the guild *)
Members == 42..46

(* the handle of every member, derived once *)
amp_usernames == [u \in Members |-> derive_amp_username(u)]

amp_username(u) == amp_usernames[u]

(* cogs/admin.py _process_approval: the instance name *)
instance_name(u, g) == <<UserName(u), g, "server">>

----------------------------------------------------------------------------
(* database/db.py *)

(* a variant that gives the id of a decided last row to the new request *)
create_request_reusing_id(reqs, u, g, t) ==
    LET row == [user_id |-> u, username |-> UserName(u), game_name |-> g,
                status |-> PENDING, requested_at |-> t,
                processed_at |-> None, processed_by |-> None,
                admin_message_id |-> None, notes |-> None,
                amp_user_id |-> None, amp_instance_id |-> None]
    IN IF reqs # << >> /\ reqs[Len(reqs)].status # PENDING
       THEN [reqs EXCEPT ![Len(reqs)] = row]
       ELSE Append(reqs, row)

(* create_request: AUTOINCREMENT id, the row as inserted *)
create_request(reqs, u, g, t) ==
    Append(reqs, [user_id |-> u, username |-> UserName(u), game_name |-> g,
                  status |-> PENDING, requested_at |-> t,
                  processed_at |-> None, processed_by |-> None,
                  admin_message_id |-> None, notes |-> None,
                  amp_user_id |-> None, amp_instance_id |-> None])

(* a variant that stamps requested_at instead of processed_at *)
update_request_status_requested_at(row, status, processed_by, notes, amp_user_id, amp_instance_id, admin_message_id, t) ==
    [row EXCEPT !.status = status,
                !.requested_at = t,
                !.processed_by = processed_by,
                !.notes = notes,
                !.amp_user_id = amp_user_id,
                !.amp_instance_id = amp_instance_id,
                !.admin_message_id =
                    IF admin_message_id # None THEN admin_message_id ELSE @]

(* a variant that does not record who decided *)
update_request_status_no_admin(row, status, processed_by, notes, amp_user_id, amp_instance_id, admin_message_id, t) ==
    [row EXCEPT !.status = status,
                !.processed_at = Some(t),
                !.notes = notes,
                !.amp_user_id = amp_user_id,
                !.amp_instance_id = amp_instance_id,
                !.admin_message_id =
                    IF admin_message_id # None THEN admin_message_id ELSE @]

(* a variant that keeps a stored handle when the argument is NULL *)
update_request_status_keep_ids(row, status, processed_by, notes, amp_user_id, amp_instance_id, admin_message_id, t) ==
    [row EXCEPT !.status = status,
                !.processed_at = Some(t),
                !.processed_by = processed_by,
                !.notes = notes,
                !.amp_user_id = IF amp_user_id # None THEN amp_user_id ELSE @,
                !.amp_instance_id =
                    IF amp_instance_id # None THEN amp_instance_id ELSE @,
                !.admin_message_id =
                    IF admin_message_id # None THEN admin_message_id ELSE @]

(* update_request_status: one unconditional UPDATE ... WHERE id = ? that  *)
(* assigns every column from the arguments, NULL when not supplied        *)
update_request_status(row, status, processed_by, notes, amp_user_id, amp_instance_id, admin_message_id, t) ==
    [row EXCEPT !.status = status,
                !.processed_at = Some(t),
                !.processed_by = processed_by,
                !.notes = notes,
                !.amp_user_id = amp_user_id,
                !.amp_instance_id = amp_instance_id,
                !.admin_message_id =
                    IF admin_message_id # None THEN admin_message_id ELSE @]

(* a variant that takes the requests newer than the cutoff *)
expire_old_requests_newer(reqs, hours, t) ==
    [i \in DOMAIN reqs |->
        IF reqs[i].status = PENDING /\ reqs[i].requested_at > t - hours
        THEN [reqs[i] EXCEPT !.status = EXPIRED, !.processed_at = Some(t)]
        ELSE reqs[i]]

(* a variant that sets the status only *)
expire_old_requests_status_only(reqs, hours, t) ==
    [i \in DOMAIN reqs |->
        IF reqs[i].status = PENDING /\ reqs[i].requested_at < t - hours
        THEN [reqs[i] EXCEPT !.status = EXPIRED]
        ELSE reqs[i]]

(* expire_old_requests: UPDATE ... SET status, processed_at               *)
(*                      WHERE status = 'pending' AND requested_at < cutoff *)
expire_old_requests(reqs, hours, t) ==
    [i \in DOMAIN reqs |->
        IF reqs[i].status = PENDING /\ reqs[i].requested_at < t - hours
        THEN [reqs[i] EXCEPT !.status = EXPIRED, !.processed_at = Some(t)]
        ELSE reqs[i]]

(* expire_old_requests has no return statement: the caller gets None,   *)
(* never the number of rows the UPDATE changed                            *)
expire_old_requests_return(reqs, hours, t) == None

(* a variant whose query matches no row *)
amp_user_exists_no_row(ledger, h) ==
    \E row \in ledger : row.amp_username = h /\ row.discord_user_id = 0

(* amp_user_exists: SELECT 1 FROM amp_users WHERE amp_username = ? *)
amp_user_exists(ledger, h) ==
    \E row \in ledger : row.amp_username = h

(* a variant whose amp_username column is not UNIQUE *)
create_amp_user_record_id_only(ledger, d, h) ==
    {row \in ledger : row.discord_user_id # d}
        \cup {[discord_user_id |-> d, amp_username |-> h]}

(* create_amp_user_record: INSERT OR REPLACE under the two UNIQUE columns *)
create_amp_user_record(ledger, d, h) ==
    {row \in ledger : row.discord_user_id # d /\ row.amp_username # h}
        \cup {[discord_user_id |-> d, amp_username |-> h]}

----------------------------------------------------------------------------
(* Handlers in flight *)

IdleTask == [op |-> "idle", pc |-> "idle", rid |-> 0, reason |-> None,
             seen |-> FALSE, amp_user |-> None, instance |-> None]

NoResult == <<FALSE, None, None>>

Reply(outcome, result) == [outcome |-> outcome, result |-> result]

(* a step that answers nobody *)
NoReply == Reply("none", NoResult)

(* the answer to a submission: the handler that gave it, the requester,   *)
(* the game as the handler looked it up, and what was answered            *)
Submitted(path, u, g, outcome) ==
    [outcome |-> outcome, result |-> NoResult, path |-> path,
     user_id |-> u, game_name |-> g]

(* a call to the panel: the method, how it ended, the exception it raised *)
(* and, for a creation call, whether the reset_user_password that follows *)
(* it succeeded                                                            *)
Call(method, outcome, error, pushed) ==
    [method |-> method, outcome |-> outcome, error |-> error,
     pushed |-> pushed]

NoCall == Call("none", "none", << >>, FALSE)

Requester(a) == requests[task[a].rid].user_id
Handle(a) == amp_username(Requester(a))

(* callers of the HTTP transport that can be in flight together *)
Callers == {1, 2}

(* a caller with no HTTP call in flight *)
IdleCall ==
    [op |-> "none", pc |-> "idle", login |-> 0, token |-> None,
     logins |-> 0, posts |-> 0]

(* interactions (button clicks, slash commands) that can be in flight    *)
(* together                                                               *)
Interactions == {1, 2}

(* an interaction with no submit handler in flight *)
IdleSubmit ==
    [pc |-> "idle", path |-> "none", user_id |-> 0, game_name |-> "",
     user_requests |-> {}]

Init ==
    /\ requests = << >>
    /\ amp_users = {}
    /\ connected = FALSE
    /\ panelUsers = {}
    /\ createReturned = {}
    /\ instances = {}
    /\ task = [a \in Admins |-> IdleTask]
    /\ reply = NoReply
    /\ panel = NoCall
    /\ dm = None
    /\ now = 0
    /\ session_id = None
    /\ panelSessions = {}
    /\ loginsSent = 0
    /\ http = [c \in Callers |-> IdleCall]
    /\ returned = None
    /\ TEMPLATE_IDS = BuiltInTemplates
    /\ payload = None
    /\ submitting = [s \in Interactions |-> IdleSubmit]

----------------------------------------------------------------------------
(* cogs/game_requests.py *)

(* _notify_admins ends with update_request_status(..., thread_id=...);    *)
(* the store's method has no such parameter, the call raises TypeError    *)
(* before any statement runs and the handler's except clause swallows it: *)
(* the row is left as created                                              *)
notify_admins(row, message_id, t) == row

PendingOf(u) ==
    {i \in DOMAIN requests :
        requests[i].user_id = u /\ requests[i].status = PENDING}

(* a variant of the quota test that lets one more request through *)
quota_reached_above(user_requests) ==
    Cardinality(user_requests) > max_pending_requests_per_user

(* len(user_requests) >= settings.max_pending_requests_per_user *)
quota_reached(user_requests) ==
    Cardinality(user_requests) >= max_pending_requests_per_user

(* game_request_callback up to create_request: what the handler answers  *)
(* to requester u for game g in the current table; a second request for  *)
(* a game the requester already waits for is allowed                       *)
button_answer(u, g) ==
    IF quota_reached(PendingOf(u)) THEN "quota" ELSE "submitted"

(* game_request_callback: the game of the button, the quota check,        *)
(* create_request, _notify_admins; a second request for a game the        *)
(* requester already waits for is allowed                                  *)
game_request_callback(u, g) ==
    /\ get_game_by_name(g) # None
    /\ reply' = Submitted("game_request_callback", u, g, button_answer(u, g))
    /\ IF button_answer(u, g) # "submitted"
       THEN UNCHANGED requests
       ELSE LET created == create_request(requests, u, g, now)
                id == Len(created)
            IN requests' = [created EXCEPT
                               ![id] = notify_admins(created[id], id, now)]
    /\ UNCHANGED <<amp_users, connected, panelUsers, createReturned,
                   instances, task, now>>
    /\ panel' = NoCall
    /\ dm' = None
    /\ UNCHANGED <<httpVars, cfgVars, submitVars>>

SubmitPaths == {"game_request_callback", "request_game_server"}

(* game_request_callback / request_game_server up to the answer of       *)
(* await get_user_pending_requests: the handler holds the requester's    *)
(* pending rows as they were read                                         *)
submit_check(s, path, u, g) ==
    /\ submitting[s].pc = "idle"
    /\ get_game_by_name(g) # None
    /\ submitting' = [submitting EXCEPT ![s] =
           [pc |-> "create_request", path |-> path, user_id |-> u,
            game_name |-> g, user_requests |-> PendingOf(u)]]
    /\ reply' = NoReply
    /\ UNCHANGED <<requests, amp_users, connected, panelUsers,
                   createReturned, instances, task, now>>
    /\ panel' = NoCall
    /\ dm' = None
    /\ UNCHANGED <<httpVars, cfgVars>>

(* what the handler answers from the rows it read *)
submit_answer(path, g, user_requests) ==
    IF quota_reached(user_requests) THEN "quota"
    ELSE IF /\ path = "request_game_server"
            /\ \E i \in user_requests : requests[i].game_name = g
    THEN "duplicate"
    ELSE "submitted"

(* the handler from the quota test on: the refusals, or await            *)
(* create_request and _notify_admins                                      *)
submit_create(s) ==
    /\ submitting[s].pc = "create_request"
    /\ LET u == submitting[s].user_id
           g == submitting[s].game_name
           answer == submit_answer(submitting[s].path, g,
                                   submitting[s].user_requests)
       IN /\ reply' = Submitted(submitting[s].path, u, g, answer)
          /\ IF answer # "submitted"
             THEN UNCHANGED requests
             ELSE LET created == create_request(requests, u, g, now)
                      id == Len(created)
                  IN requests' = [created EXCEPT
                         ![id] = notify_admins(created[id], id, now)]
    /\ submitting' = [submitting EXCEPT ![s] = IdleSubmit]
    /\ UNCHANGED <<amp_users, connected, panelUsers, createReturned,
                   instances, task, now>>
    /\ panel' = NoCall
    /\ dm' = None
    /\ UNCHANGED <<httpVars, cfgVars>>

(* game.lower() *)
game_lower(game) ==
    CASE game = "Minecraft" -> "minecraft"
      [] OTHER -> game

(* request_game_server up to create_request: what the handler answers to *)
(* requester u for the lower-cased game in the current table              *)
slash_answer(u, game) ==
    LET user_requests == PendingOf(u)
    IN IF get_game_by_name(game) = None THEN "invalid_game"
       ELSE IF quota_reached(user_requests) THEN "quota"
       ELSE IF \E i \in user_requests : requests[i].game_name = game
       THEN "duplicate"
       ELSE "submitted"

(* request_game_server: the game argument lower-cased and looked up, the  *)
(* quota check, the refusal of a game the requester already has a pending *)
(* request for, create_request, _notify_admins                             *)
request_game_server(u, g) ==
    LET game == game_lower(g)
    IN /\ reply' = Submitted("request_game_server", u, game,
                             slash_answer(u, game))
       /\ IF slash_answer(u, game) # "submitted"
          THEN UNCHANGED requests
          ELSE LET created == create_request(requests, u, game, now)
                   id == Len(created)
               IN requests' = [created EXCEPT
                                  ![id] = notify_admins(created[id], id, now)]
       /\ UNCHANGED <<amp_users, connected, panelUsers, createReturned,
                      instances, task, now>>
       /\ panel' = NoCall
       /\ dm' = None
       /\ UNCHANGED <<httpVars, cfgVars, submitVars>>

(* a variant of cancel_request without the ownership check *)
cancel_request_any_user(u, rid) ==
    /\ reply' = Reply(IF rid \notin DOMAIN requests THEN "not_found"
          ELSE IF requests[rid].status # PENDING THEN "cannot_cancel"
          ELSE "cancellation_failed", NoResult)
    /\ UNCHANGED <<requests, amp_users, connected, panelUsers,
                   createReturned, instances, task, now>>
    /\ panel' = NoCall
    /\ dm' = None
    /\ UNCHANGED <<httpVars, cfgVars, submitVars>>

(* cancel_request: the checks pass for the owner of a pending request,     *)
(* then RequestStatus.CANCELLED is evaluated; the enum has no such member, *)
(* AttributeError is raised before the store is called and the handler     *)
(* answers "Cancellation Failed"                                           *)
cancel_request(u, rid) ==
    /\ reply' = Reply(IF rid \notin DOMAIN requests THEN "not_found"
          ELSE IF requests[rid].user_id # u THEN "access_denied"
          ELSE IF requests[rid].status # PENDING THEN "cannot_cancel"
          ELSE "cancellation_failed", NoResult)
    /\ UNCHANGED <<requests, amp_users, connected, panelUsers,
                   createReturned, instances, task, now>>
    /\ panel' = NoCall
    /\ dm' = None
    /\ UNCHANGED <<httpVars, cfgVars, submitVars>>

(* cleanup_expired_requests: the hourly task calls expire_old_requests *)
cleanup_expired_requests ==
    /\ requests' = expire_old_requests(requests, request_timeout_hours, now)
    /\ requests' # requests
    /\ reply' = NoReply
    /\ UNCHANGED <<amp_users, connected, panelUsers, createReturned,
                   instances, task, now>>
    /\ panel' = NoCall
    /\ dm' = None
    /\ UNCHANGED <<httpVars, cfgVars, submitVars>>

(* cleanup_expired_requests when expire_old_requests raises: the except  *)
(* clause of the loop body logs the error, no row changes and the loop   *)
(* goes on to its next run                                                 *)
cleanup_expired_requests_error ==
    /\ reply' = NoReply
    /\ UNCHANGED <<requests, amp_users, connected, panelUsers,
                   createReturned, instances, task, now>>
    /\ panel' = NoCall
    /\ dm' = None
    /\ UNCHANGED <<httpVars, cfgVars, submitVars>>

(* time passes *)
Tick ==
    /\ now + TickHours <= MaxTime
    /\ now' = now + TickHours
    /\ reply' = NoReply
    /\ UNCHANGED <<requests, amp_users, connected, panelUsers,
                   createReturned, instances, task>>
    /\ panel' = NoCall
    /\ dm' = None
    /\ UNCHANGED <<httpVars, cfgVars, submitVars>>

----------------------------------------------------------------------------
(* cogs/admin.py: reject *)

(* reject_request_callback: loads the request, refuses unless pending,    *)
(* otherwise shows the RejectionModal                                      *)
reject_request_callback(a, rid) ==
    /\ task[a].op = "idle"
    /\ IF rid \notin DOMAIN requests
       THEN /\ reply' = Reply("not_found",
                              NoResult)
            /\ UNCHANGED task
       ELSE IF requests[rid].status # PENDING
       THEN /\ reply' = Reply("already",
                              NoResult)
            /\ UNCHANGED task
       ELSE /\ task' = [task EXCEPT ![a] =
                   [IdleTask EXCEPT !.op = "RejectionModal", !.pc = "modal",
                                    !.rid = rid]]
            /\ reply' = NoReply
    /\ UNCHANGED <<requests, amp_users, connected, panelUsers,
                   createReturned, instances, now>>
    /\ panel' = NoCall
    /\ dm' = None
    /\ UNCHANGED <<httpVars, cfgVars, submitVars>>

(* RejectionModal.on_submit: get_request (only "not found" returns), then *)
(* update_request_status(REJECTED, processed_by, notes)                    *)
on_submit(a, reason) ==
    /\ task[a].op = "RejectionModal"
    /\ LET rid == task[a].rid IN
       /\ requests' = [requests EXCEPT ![rid] =
              update_request_status(@, REJECTED, Some(a), Some(reason),
                                    None, None, None, now)]
       /\ reply' = Reply("rejected", NoResult)
    /\ task' = [task EXCEPT ![a] = IdleTask]
    /\ UNCHANGED <<amp_users, connected, panelUsers, createReturned,
                   instances, now>>
    /\ panel' = NoCall
    /\ dm' = None
    /\ UNCHANGED <<httpVars, cfgVars, submitVars>>

(* deny_request_slash, up to its await on update_request_status *)
deny_request_slash(a, rid, reason) ==
    /\ task[a].op = "idle"
    /\ IF rid \notin DOMAIN requests
       THEN /\ reply' = Reply("not_found",
                              NoResult)
            /\ UNCHANGED task
       ELSE IF requests[rid].status # PENDING
       THEN /\ reply' = Reply("already",
                              NoResult)
            /\ UNCHANGED task
       ELSE /\ task' = [task EXCEPT ![a] =
                   [IdleTask EXCEPT !.op = "deny_request_slash",
                                    !.pc = "update_request_status",
                                    !.rid = rid, !.reason = Some(reason)]]
            /\ reply' = NoReply
    /\ UNCHANGED <<requests, amp_users, connected, panelUsers,
                   createReturned, instances, now>>
    /\ panel' = NoCall
    /\ dm' = None
    /\ UNCHANGED <<httpVars, cfgVars, submitVars>>

(* deny_request_slash: the update, then the answer *)
deny_request_update(a) ==
    /\ task[a].op = "deny_request_slash"
    /\ LET rid == task[a].rid IN
       /\ requests' = [requests EXCEPT ![rid] =
              update_request_status(@, REJECTED, Some(a), task[a].reason,
                                    None, None, None, now)]
       /\ reply' = Reply("denied", NoResult)
    /\ task' = [task EXCEPT ![a] = IdleTask]
    /\ UNCHANGED <<amp_users, connected, panelUsers, createReturned,
                   instances, now>>
    /\ panel' = NoCall
    /\ dm' = None
    /\ UNCHANGED <<httpVars, cfgVars, submitVars>>

----------------------------------------------------------------------------
(* cogs/admin.py: approve *)

(* approve_request_callback and approve_request_slash run the same        *)
(* statements on the store and the panel (the button handler also edits   *)
(* the admin message).  Up to the call of _process_approval: get_request  *)
(* and the four early returns; cached is whether bot.get_user finds the   *)
(* requester                                                               *)
ApproveLoad(a, rid, cached) ==
    /\ task[a].op = "idle"
    /\ IF rid \notin DOMAIN requests
       THEN /\ reply' = Reply("not_found", NoResult)
            /\ UNCHANGED task
       ELSE IF requests[rid].status # PENDING
       THEN /\ reply' = Reply("already", NoResult)
            /\ UNCHANGED task
       ELSE IF get_game_by_name(requests[rid].game_name) = None
       THEN /\ reply' = Reply("no_game", NoResult)
            /\ UNCHANGED task
       ELSE IF ~cached
       THEN /\ reply' = Reply("user_not_found", NoResult)
            /\ UNCHANGED task
       ELSE /\ task' = [task EXCEPT ![a] =
                   [IdleTask EXCEPT !.op = "approve", !.pc = "create_user",
                                    !.rid = rid]]
            /\ reply' = NoReply
    /\ UNCHANGED <<requests, amp_users, connected, panelUsers,
                   createReturned, instances, now>>
    /\ panel' = NoCall
    /\ dm' = None
    /\ UNCHANGED <<httpVars, cfgVars, submitVars>>

approve_request_callback(a, rid, cached) == ApproveLoad(a, rid, cached)

approve_request_slash(a, rid, cached) == ApproveLoad(a, rid, cached)

(* services/amp_service.py AMPUser values *)
(* via names the return statement of create_user that built the value *)
ExistingUser(h, via) ==
    [username |-> h, password |-> "[EXISTING]", user_id |-> Some(h),
     via |-> via]

NewUser(h, user_id, via) ==
    [username |-> h, password |-> "generated", user_id |-> user_id,
     via |-> via]

(* _process_approval when create_user returned nothing or raised *)
ApprovalFailed(a, result) ==
    /\ reply' = Reply("failed", result)
    /\ task' = [task EXCEPT ![a] = IdleTask]

(* _process_approval: _ensure_amp_connection, then create_user up to the  *)
(* ledger check: not connected returns None, a ledger hit returns the     *)
(* redacted account, a miss goes on to the panel                           *)
create_user(a, connects) ==
    /\ task[a].pc = "create_user"
    /\ connected' = (connected \/ connects)
    /\ IF ~connected'
       THEN ApprovalFailed(a, NoResult)
       ELSE /\ reply' = NoReply
            /\ IF amp_user_exists(amp_users, Handle(a))
               THEN task' = [task EXCEPT
                       ![a].pc = "create_instance",
                       ![a].amp_user =
                           Some(ExistingUser(Handle(a), "ledger"))]
               ELSE task' = [task EXCEPT
                       ![a].pc = "get_user_info",
                       ![a].seen = (Handle(a) \in createReturned)]
    /\ UNCHANGED <<requests, amp_users, panelUsers, createReturned,
                   instances, now>>
    /\ panel' = NoCall
    /\ dm' = None
    /\ UNCHANGED <<httpVars, cfgVars, submitVars>>

(* create_user: Core.get_user_info under a 5 s timeout; found records the *)
(* handle and returns the redacted account, anything else falls through   *)
get_user_info(a, found) ==
    /\ task[a].pc = "get_user_info"
    /\ found => Handle(a) \in panelUsers
    /\ IF found
       THEN /\ amp_users' =
                  IF Requester(a) # 0
                  THEN create_amp_user_record(amp_users, Requester(a),
                                              Handle(a))
                  ELSE amp_users
            /\ task' = [task EXCEPT
                   ![a].pc = "create_instance",
                   ![a].amp_user =
                       Some(ExistingUser(Handle(a), "get_user_info"))]
       ELSE /\ task' = [task EXCEPT ![a].pc = "core_create_user"]
            /\ UNCHANGED amp_users
    /\ reply' = NoReply
    /\ UNCHANGED <<requests, connected, panelUsers, createReturned,
                   instances, now>>
    /\ panel' = Call("Core.get_user_info",
                      IF found THEN "found" ELSE "not_found", << >>, FALSE)
    /\ dm' = None
    /\ UNCHANGED <<httpVars, cfgVars, submitVars>>

(* how a Core.create_user call can end: a None result, an ActionResult    *)
(* with status true or false, the 10 s timeout, or an exception           *)
CreateOutcomes ==
    {"None", "ActionResult", "timeout", "raised", "status_false"}

(* messages of the exceptions Core.create_user raises, as words; the      *)
(* first two say that the account exists, the others do not                *)
NoError == << >>
AlreadyExistsErrors == {<<"User", "already", "exists">>, <<"Duplicate", "user">>}
OtherErrors == {<<"Session", "conflict">>, <<"Permission", "denied">>}
ErrorMessages == AlreadyExistsErrors \cup OtherErrors

(* str(e).lower() *)
lower(word) ==
    CASE word = "User" -> "user"
      [] word = "Duplicate" -> "duplicate"
      [] word = "Session" -> "session"
      [] word = "Permission" -> "permission"
      [] OTHER -> word

error_msg(e) == [i \in DOMAIN e |-> lower(e[i])]

(* keyword in error_msg: the keyword occurs in the message *)
occurs_in(keyword, msg) ==
    \E i \in 1..Len(msg) :
        /\ i + Len(keyword) - 1 <= Len(msg)
        /\ SubSeq(msg, i, i + Len(keyword) - 1) = keyword

exists_keywords ==
    {<<"already", "exists">>, <<"duplicate">>, <<"conflict">>, <<"exists">>}

(* the test create_user makes on a raised exception *)
indicates_exists(e) ==
    \E keyword \in exists_keywords : occurs_in(keyword, error_msg(e))

(* the return statement of create_user that an outcome leads to *)
Branch(outcome, e) ==
    IF outcome = "raised"
    THEN (IF indicates_exists(e) THEN "exists" ELSE "error")
    ELSE outcome

(* a variant that takes a refused creation for an account *)
returns_no_account_error_only(branch) == branch = "error"

(* the outcomes after which create_user returns None: an exception that  *)
(* does not say the account exists, and a result whose status is false   *)
returns_no_account(branch) == branch \in {"error", "status_false"}

(* a variant that records nothing on a timeout *)
RecordsInLedger_not_timeout(branch) == branch \in {"None", "exists"}

(* which return statements of create_user follow create_amp_user_record *)
RecordsInLedger(branch) == branch \in {"None", "timeout", "exists"}

(* create_user: Core.create_user under a 10 s timeout and what follows    *)
(* each outcome; e is the exception raised, if any; applied says whether  *)
(* the panel created the account when the answer was lost; pushed whether *)
(* reset_user_password succeeded (its failure is logged and the account   *)
(* is returned all the same)                                               *)
core_create_user(a, outcome, e, applied, pushed) ==
    /\ task[a].pc = "core_create_user"
    /\ outcome \in {"None", "ActionResult"} => Handle(a) \notin panelUsers
    /\ (outcome = "raised") = (e # NoError)
    /\ e \in AlreadyExistsErrors => Handle(a) \in panelUsers
    /\ applied => outcome = "timeout"
    /\ pushed => outcome \in {"None", "ActionResult"}
    /\ LET branch == Branch(outcome, e)
       IN /\ createReturned' =
                 IF branch \in {"None", "ActionResult", "timeout", "exists"}
                 THEN createReturned \cup {Handle(a)} ELSE createReturned
          /\ amp_users' =
                 IF RecordsInLedger(branch) /\ Requester(a) # 0
                 THEN create_amp_user_record(amp_users, Requester(a),
                                             Handle(a))
                 ELSE amp_users
          /\ IF returns_no_account(branch)
             THEN ApprovalFailed(a, NoResult)
             ELSE /\ reply' = NoReply
                  /\ task' = [task EXCEPT
                         ![a].pc = "create_instance",
                         ![a].amp_user = Some(
                             CASE branch = "None" ->
                                      NewUser(Handle(a), None, branch)
                               [] branch = "ActionResult" ->
                                      NewUser(Handle(a), Some(Handle(a)),
                                              branch)
                               [] OTHER -> ExistingUser(Handle(a), branch))]
    /\ panelUsers' =
           IF outcome \in {"None", "ActionResult"} \/ applied
           THEN panelUsers \cup {Handle(a)} ELSE panelUsers
    /\ UNCHANGED <<requests, connected, instances, now>>
    /\ panel' = Call("Core.create_user", outcome, e, pushed)
    /\ dm' = None
    /\ UNCHANGED <<httpVars, cfgVars, submitVars>>

DeployOutcomes == {"Id", "success", "failed", "timeout"}

(* a variant that presumes a deployment whose answer was lost *)
DeployStarted_presumed(outcome) == outcome \in {"Id", "success", "timeout"}

(* http_create_instance returns an instance for these outcomes only *)
DeployStarted(outcome) == outcome \in {"Id", "success"}

(* _send_credentials_dm: the embed carries the account's username and its *)
(* password field as create_user returned it                               *)
send_credentials_dm(u, amp_user) ==
    [to |-> u, username |-> amp_user.username,
     password |-> amp_user.password]

(* _process_approval: create_instance -> http_create_instance, then the   *)
(* credentials DM and the return of (True, username, instance_id), which  *)
(* is all the handler keeps.  The panel acknowledges with a task Id       *)
(* ("Id": the instance handle is that Id), with a success flag and no Id  *)
(* ("success": the handle is the instance name), or the call fails:       *)
(* "failed" is a refused login, a non-200 status or no acknowledgement,   *)
(* "timeout" a timeout or transport error, which http_create_instance     *)
(* catches.  A missing instance returns (False, username, None) before    *)
(* the DM and nothing is written.  delivered says whether user.send went  *)
(* through (a refused DM is logged and the approval goes on)               *)
create_instance(a, outcome, delivered) ==
    /\ task[a].pc = "create_instance"
    /\ DeployStarted(outcome) => Cardinality(instances) < MaxDeploys
    /\ delivered => DeployStarted(outcome)
    /\ dm' = IF delivered
             THEN Some(send_credentials_dm(Requester(a), task[a].amp_user[1]))
             ELSE None
    /\ LET rid == task[a].rid
           name == instance_name(requests[rid].user_id,
                                 requests[rid].game_name)
           n == Cardinality({d \in instances : d.rid = rid}) + 1
           handle == IF outcome = "Id" THEN <<"Id", 10 * rid + n, name>>
                     ELSE <<"name", 0, name>>
       IN IF DeployStarted(outcome)
          THEN /\ instances' = instances \cup
                      {[n |-> n, rid |-> rid, handle |-> handle]}
               /\ task' = [task EXCEPT
                      ![a].pc = "update_request_status",
                      ![a].seen = FALSE,
                      ![a].amp_user = Some(task[a].amp_user[1].username),
                      ![a].instance = Some(handle)]
               /\ reply' = NoReply
          ELSE /\ ApprovalFailed(a,
                      <<FALSE, Some(task[a].amp_user[1].username), None>>)
               /\ UNCHANGED instances
    /\ UNCHANGED <<requests, amp_users, connected, panelUsers, createReturned,
                   now>>
    /\ panel' = Call("ADSModule.DeployTemplate", outcome, << >>, FALSE)
    /\ UNCHANGED <<httpVars, cfgVars, submitVars>>

(* approve_request_callback / approve_request_slash after success:        *)
(* update_request_status(APPROVED, ...) and the answer                     *)
approve_request_update(a) ==
    /\ task[a].op = "approve"
    /\ task[a].pc = "update_request_status"
    /\ LET rid == task[a].rid
       IN /\ requests' = [requests EXCEPT ![rid] =
                 update_request_status(@, APPROVED, Some(a),
                     Some("Approved by admin"), task[a].amp_user,
                     task[a].instance, None, now)]
          /\ reply' = Reply("approved",
                            <<TRUE, task[a].amp_user, task[a].instance>>)
    /\ task' = [task EXCEPT ![a] = IdleTask]
    /\ UNCHANGED <<amp_users, connected, panelUsers, createReturned,
                   instances, now>>
    /\ panel' = NoCall
    /\ dm' = None
    /\ UNCHANGED <<httpVars, cfgVars, submitVars>>

(* _register_persistent_views (on_ready): the pending requests whose     *)
(* stored admin_message_id is set get their approve and reject handlers  *)
(* attached again                                                         *)
register_persistent_views(reqs) ==
    {i \in DOMAIN reqs :
        reqs[i].status = PENDING /\ reqs[i].admin_message_id # None}

----------------------------------------------------------------------------
(* main.py: the bot is closed between two handlers (close ->               *)
(* AMPService.disconnect) and started again: the connection flag is       *)
(* cleared; both tables and the panel keep their contents                  *)
restart ==
    /\ connected /\ \A a \in Admins : task[a] = IdleTask
    /\ connected' = FALSE
    /\ task' = [a \in Admins |-> IdleTask]
    /\ reply' = NoReply
    /\ UNCHANGED <<requests, amp_users, panelUsers, createReturned, instances,
                   now>>
    /\ panel' = NoCall
    /\ dm' = None
    /\ UNCHANGED <<httpVars, cfgVars, submitVars>>

----------------------------------------------------------------------------

Next ==
    \/ \E u \in Users, g \in SubmittedGames :
           Len(requests) < MaxRequests /\ game_request_callback(u, g)
    \/ \E u \in Users, rid \in 1..MaxRequests : cancel_request(u, rid)
    \/ cleanup_expired_requests
    \/ Tick
    \/ \E a \in Admins, rid \in 1..MaxRequests :
           reject_request_callback(a, rid)
    \/ \E a \in Admins, reason \in Reasons : on_submit(a, reason)
    \/ \E a \in Admins, rid \in 1..MaxRequests, reason \in Reasons :
           deny_request_slash(a, rid, reason)
    \/ \E a \in Admins : deny_request_update(a)
    \/ \E a \in Admins, rid \in 1..MaxRequests, cached \in BOOLEAN :
           approve_request_callback(a, rid, cached)
    \/ \E a \in Admins, rid \in 1..MaxRequests, cached \in BOOLEAN :
           approve_request_slash(a, rid, cached)
    \/ \E a \in Admins, connects \in BOOLEAN : create_user(a, connects)
    \/ \E a \in Admins, found \in BOOLEAN : get_user_info(a, found)
    \/ \E a \in Admins, outcome \in CreateOutcomes,
          e \in ErrorMessages \cup {NoError}, applied \in BOOLEAN,
          pushed \in BOOLEAN :
           core_create_user(a, outcome, e, applied, pushed)
    \/ \E a \in Admins, outcome \in DeployOutcomes, delivered \in BOOLEAN :
           create_instance(a, outcome, delivered)
    \/ \E a \in Admins : approve_request_update(a)
    \/ restart

Spec == Init /\ [][Next]_vars

----------------------------------------------------------------------------
(* The requesters' side: the submit handlers and cancel_request of        *)
(* cogs/game_requests.py with the hourly sweep, for as many rows as the   *)
(* quota needs                                                             *)

SubmitNext ==
    \/ \E u \in Users, g \in ButtonGames :
           Len(requests) < MaxSubmits /\ game_request_callback(u, g)
    \/ \E u \in Users, g \in SlashGames :
           Len(requests) < MaxSubmits /\ request_game_server(u, g)
    \/ \E u \in Cancellers, rid \in 1..MaxSubmits : cancel_request(u, rid)
    \/ cleanup_expired_requests
    \/ Tick

SubmitSpec == Init /\ [][SubmitNext]_vars

----------------------------------------------------------------------------
(* The hourly sweep among submissions, cancellations and decisions: one  *)
(* administrator approves, the other rejects                               *)

Approver == 7
Denier == 8

SweepNext ==
    \/ \E u \in Users, g \in SubmittedGames :
           Len(requests) < MaxSwept /\ game_request_callback(u, g)
    \/ \E u \in Users, rid \in 1..MaxSwept : cancel_request(u, rid)
    \/ cleanup_expired_requests
    \/ cleanup_expired_requests_error
    \/ Tick
    \/ \E rid \in 1..MaxSwept, reason \in Reasons :
           deny_request_slash(Denier, rid, reason)
    \/ deny_request_update(Denier)
    \/ \E rid \in 1..MaxSwept : approve_request_slash(Approver, rid, TRUE)
    \/ \E connects \in BOOLEAN : create_user(Approver, connects)
    \/ \E found \in BOOLEAN : get_user_info(Approver, found)
    \/ \E outcome \in CreateOutcomes, e \in ErrorMessages \cup {NoError},
          applied \in BOOLEAN, pushed \in BOOLEAN :
           core_create_user(Approver, outcome, e, applied, pushed)
    \/ \E outcome \in DeployOutcomes, delivered \in BOOLEAN :
           create_instance(Approver, outcome, delivered)
    \/ approve_request_update(Approver)

SweepSpec == Init /\ [][SweepNext]_vars

(* the loop of discord.ext.tasks runs the sweep every hour for as long as *)
(* the cog is loaded, and the store is not down forever                    *)
SweepFairSpec == SweepSpec /\ WF_vars(cleanup_expired_requests)

----------------------------------------------------------------------------
(* The approve handlers up to _process_approval, on a table the bot finds *)
(* when it starts: requests stored by an earlier run, pending or rejected, *)
(* some for a game that has since left the catalog                         *)

StoredGames == {"minecraft", "tetris"}

StoredRows ==
    LET created(g) == create_request(<< >>, 42, g, 0)[1]
    IN {created(g) : g \in StoredGames}
           \cup {update_request_status(created(g), REJECTED, Some(a),
                                       Some(reason), None, None, None, 0) :
                     g \in StoredGames, a \in Admins, reason \in Reasons}

StoredTables ==
    UNION {[1..n -> StoredRows] : n \in 0..MaxStored}

LoadInit ==
    /\ requests \in StoredTables
    /\ amp_users = {}
    /\ connected = FALSE
    /\ panelUsers = {}
    /\ createReturned = {}
    /\ instances = {}
    /\ task = [a \in Admins |-> IdleTask]
    /\ reply = NoReply
    /\ panel = NoCall
    /\ dm = None
    /\ now = 0
    /\ session_id = None
    /\ panelSessions = {}
    /\ loginsSent = 0
    /\ http = [c \in Callers |-> IdleCall]
    /\ returned = None
    /\ TEMPLATE_IDS = BuiltInTemplates
    /\ payload = None
    /\ submitting = [s \in Interactions |-> IdleSubmit]

LoadNext ==
    \/ \E a \in Admins, rid \in 1..MaxStored + 1, cached \in BOOLEAN :
           approve_request_callback(a, rid, cached)
    \/ \E a \in Admins, rid \in 1..MaxStored + 1, cached \in BOOLEAN :
           approve_request_slash(a, rid, cached)

LoadSpec == LoadInit /\ [][LoadNext]_vars

----------------------------------------------------------------------------
(* The approve path for requests of several members: two pending requests *)
(* of two different members are in the table, the second of a member      *)
(* whose name begins like that of member 44, and both admins approve      *)

MemberTables ==
    {create_request(create_request(<< >>, u, "minecraft", 0),
                    45, "minecraft", 0) : u \in {42, 44}}

MembersInit ==
    /\ requests \in MemberTables
    /\ amp_users = {}
    /\ connected = FALSE
    /\ panelUsers = {}
    /\ createReturned = {}
    /\ instances = {}
    /\ task = [a \in Admins |-> IdleTask]
    /\ reply = NoReply
    /\ panel = NoCall
    /\ dm = None
    /\ now = 0
    /\ session_id = None
    /\ panelSessions = {}
    /\ loginsSent = 0
    /\ http = [c \in Callers |-> IdleCall]
    /\ returned = None
    /\ TEMPLATE_IDS = BuiltInTemplates
    /\ payload = None
    /\ submitting = [s \in Interactions |-> IdleSubmit]

MembersNext ==
    \/ \E a \in Admins, rid \in DOMAIN requests, cached \in BOOLEAN :
           approve_request_callback(a, rid, cached)
    \/ \E a \in Admins, connects \in BOOLEAN : create_user(a, connects)
    \/ \E a \in Admins, found \in BOOLEAN : get_user_info(a, found)
    \/ \E a \in Admins, outcome \in CreateOutcomes,
          e \in ErrorMessages \cup {NoError}, applied \in BOOLEAN,
          pushed \in BOOLEAN :
           core_create_user(a, outcome, e, applied, pushed)
    \/ \E a \in Admins, outcome \in DeployOutcomes, delivered \in BOOLEAN :
           create_instance(a, outcome, delivered)
    \/ \E a \in Admins : approve_request_update(a)

MembersSpec == MembersInit /\ [][MembersNext]_vars

----------------------------------------------------------------------------
(* The ledger under any sequence of create_amp_user_record calls: the     *)
(* method is public and a member's handle changes when the member changes *)
(* name, so a call can meet a row of the same member under another handle *)
(* or a row of another member under the same handle                       *)

LedgerHandles == {amp_username(u) : u \in Members}

(* one call of create_amp_user_record(d, h, email); the outcome tells     *)
(* whether the statement met a row it had to replace                      *)
record_amp_user(d, h) ==
    /\ amp_users' = create_amp_user_record(amp_users, d, h)
    /\ reply' = Reply(IF \E row \in amp_users :
                             \/ row.discord_user_id = d
                             \/ row.amp_username = h
                      THEN "replaced" ELSE "inserted",
                      <<TRUE, Some(h), None>>)
    /\ UNCHANGED <<requests, connected, panelUsers, createReturned,
                   instances, task, now>>
    /\ panel' = NoCall
    /\ dm' = None
    /\ UNCHANGED <<httpVars, cfgVars, submitVars>>

LedgerNext ==
    \E d \in Members, h \in LedgerHandles : record_amp_user(d, h)

LedgerSpec == Init /\ [][LedgerNext]_vars

----------------------------------------------------------------------------
(* Submit handlers in flight together: each awaits the store twice, once *)
(* for the requester's pending rows and once for the insert, and another *)
(* handler can run in between                                             *)

RaceNext ==
    \/ \E s \in Interactions, path \in SubmitPaths, u \in Users,
          g \in ButtonGames : submit_check(s, path, u, g)
    \/ \E s \in Interactions :
           Len(requests) < MaxSubmits /\ submit_create(s)

RaceSpec == Init /\ [][RaceNext]_vars

----------------------------------------------------------------------------
(* config/templates.py and the /templates command *)

(* config/games.py: GameTemplate.template_id, the key into TEMPLATE_IDS; *)
(* every entry of AVAILABLE_GAMES uses its own name                       *)
game_template_id(g) == g

(* get_template_id: TEMPLATE_IDS.get(game_name.lower(), DEFAULT_TEMPLATE_ID) *)
get_template_id(ids, game_name) ==
    IF game_lower(game_name) \in DOMAIN ids
    THEN ids[game_lower(game_name)]
    ELSE DEFAULT_TEMPLATE_ID

(* a variant that stores under the name as given *)
update_template_id_as_given(ids, game_name, template_id) ==
    [k \in DOMAIN ids \cup {game_name} |->
        IF k = game_name THEN template_id ELSE ids[k]]

(* update_template_id: TEMPLATE_IDS[game_name.lower()] = template_id *)
update_template_id(ids, game_name, template_id) ==
    [k \in DOMAIN ids \cup {game_lower(game_name)} |->
        IF k = game_lower(game_name) THEN template_id ELSE ids[k]]

TemplateActions == {"list", "update", "reset"}
UpdateNames == {"minecraft", "Minecraft", "rust"}

(* manage_templates: list answers with the mapping, update stores the new *)
(* id and answers with the old and the new one, any other action is       *)
(* refused                                                                 *)
manage_templates(action, game_name, template_id) ==
    /\ IF action = "update"
       THEN /\ TEMPLATE_IDS' =
                   update_template_id(TEMPLATE_IDS, game_name, template_id)
            /\ reply' = Reply("template_updated",
                              <<game_name,
                                get_template_id(TEMPLATE_IDS, game_name),
                                template_id>>)
       ELSE /\ UNCHANGED TEMPLATE_IDS
            /\ reply' = Reply(IF action = "list" THEN "templates"
                              ELSE "invalid_action", NoResult)
    /\ payload' = None
    /\ UNCHANGED <<requests, amp_users, connected, panelUsers,
                   createReturned, instances, task, now>>
    /\ panel' = NoCall
    /\ dm' = None
    /\ UNCHANGED <<httpVars, submitVars>>

(* http_create_instance: the DeployTemplate payload of a deployment for   *)
(* game g takes its TemplateID from get_template_id(game.template_id)     *)
deploy_payload(g) ==
    /\ payload' = Some([template |-> game_template_id(g),
                        TemplateID |->
                            get_template_id(TEMPLATE_IDS,
                                            game_template_id(g))])
    /\ reply' = NoReply
    /\ UNCHANGED TEMPLATE_IDS
    /\ UNCHANGED <<requests, amp_users, connected, panelUsers,
                   createReturned, instances, task, now>>
    /\ panel' = NoCall
    /\ dm' = None
    /\ UNCHANGED <<httpVars, submitVars>>

(* main.py: the process ends and a new one starts; config.templates is   *)
(* imported again and TEMPLATE_IDS is the dict the module defines         *)
process_start ==
    /\ TEMPLATE_IDS' = BuiltInTemplates
    /\ payload' = None
    /\ reply' = Reply("started", NoResult)
    /\ UNCHANGED <<requests, amp_users, connected, panelUsers,
                   createReturned, instances, task, now>>
    /\ panel' = NoCall
    /\ dm' = None
    /\ UNCHANGED <<httpVars, submitVars>>

TemplateNext ==
    \/ \E action \in TemplateActions, game_name \in UpdateNames,
          template_id \in 1..MaxTemplateId :
           manage_templates(action, game_name, template_id)
    \/ \E g \in AVAILABLE_GAMES : deploy_payload(g)
    \/ process_start

TemplateSpec == Init /\ [][TemplateNext]_vars

----------------------------------------------------------------------------
(* services/amp_service.py: the HTTP transport *)

MaxLogins == 2

(* what the panel can answer to DeployTemplate: the HTTP status, how the  *)
(* body reads (a JSON object, a JSON array, a body json() cannot decode,  *)
(* or a content type json() refuses), the object's success, Status and Id *)
(* members and the words of a body that is not JSON                        *)
Response(status, kind, success, Status, Id, text) ==
    [status |-> status, kind |-> kind, success |-> success,
     Status |-> Status, Id |-> Id, text |-> text]

ObjectResponses ==
    {Response(200, "object", success, Status, Id, "") :
        success \in {None, Some(FALSE), Some(TRUE)},
        Status \in {None, Some("Running"), Some("Failed")},
        Id \in {None, Some(""), Some("task-1")}}

Unauthorized ==
    {Response(401, "content_type", None, None, None, "Unauthorized"),
     Response(200, "object", Some(FALSE), None, None, "")}

DeployResponses ==
    ObjectResponses \cup Unauthorized \cup
    {Response(200, "array", None, None, None, ""),
     Response(200, "undecodable", None, None, None, "Success"),
     Response(200, "undecodable", None, None, None, "Running"),
     Response(200, "undecodable", None, None, None, "Bad Gateway"),
     Response(200, "content_type", None, None, None, "Success"),
     Response(500, "object", Some(TRUE), None, Some("task-1"), "")}

(* no response at all: a timeout or a transport error raised by post *)
NoAnswer == Response(0, "exception", None, None, None, "")

(* what the panel can answer to GetInstances: a list of hosts, an object  *)
(* with an Instances member, an object without one, or a failure          *)
InstancesResponses ==
    {Response(200, "array", None, None, None, ""),
     Response(200, "Instances", None, None, None, ""),
     Response(200, "object", None, None, None, "")} \cup Unauthorized

(* response_text.lower() *)
text_lower(text) ==
    CASE text = "Success" -> "success"
      [] text = "Running" -> "running"
      [] text = "Bad Gateway" -> "bad gateway"
      [] text = "Unauthorized" -> "unauthorized"
      [] OTHER -> text

(* Python truth of result_data.get("success") and result_data.get("Id") *)
success_flag(response) == response.success = Some(TRUE)

task_id(response) == response.Id # None /\ response.Id # Some("")

AMPInstance(instance_id, status) ==
    [instance_id |-> instance_id, status |-> status]

(* http_create_instance from the response on: a 200 whose JSON object     *)
(* carries success, Status = "Running" or an Id gives an instance named   *)
(* by the Id member if there is one; a body that raises JSONDecodeError   *)
(* gives one when its text contains "success" or "running"; a JSON array  *)
(* or a refused content type raises inside the try and gives None, as     *)
(* does any other status                                                   *)
deploy_result(response, name) ==
    IF response.status # 200 THEN None
    ELSE CASE response.kind = "object" ->
                  IF \/ success_flag(response)
                     \/ response.Status = Some("Running")
                     \/ task_id(response)
                  THEN Some(AMPInstance(
                           IF response.Id # None THEN response.Id
                           ELSE Some(name),
                           "deploying_template"))
                  ELSE None
           [] response.kind = "undecodable" ->
                  IF text_lower(response.text) \in {"success", "running"}
                  THEN Some(AMPInstance(Some(name), "deploying_template"))
                  ELSE None
           [] OTHER -> None

(* http_get_instances from the response on: the instances of the hosts,   *)
(* or [] for any failure                                                   *)
instances_result(response) ==
    IF response.status = 200 /\ response.kind \in {"array", "Instances"}
    THEN Some({"instance"})
    ELSE Some({})

HttpOps == {"http_create_instance", "http_get_instances"}

(* what a call returns when it gives up *)
Failure(op) == IF op = "http_create_instance" THEN None ELSE Some({})

(* the panel accepts the token a request carries *)
Accepted(token) == token # None /\ token[1] \in panelSessions

(* a call returns: what it was, the logins and posts it made, whether the *)
(* panel accepted its token, the response it got and the value returned   *)
Return(call, accepted, response, result) ==
    Some([op |-> call.op, logins |-> call.logins, posts |-> call.posts,
          accepted |-> accepted, response |-> response, result |-> result])

(* http_create_instance / http_get_instances up to the first await: the   *)
(* call logs in when no session token is stored                            *)
http_call(c, op) ==
    /\ http[c].pc = "idle"
    /\ http' = [http EXCEPT ![c] =
           [IdleCall EXCEPT
               !.op = op,
               !.pc = IF session_id = None THEN "http_login" ELSE "post"]]
    /\ returned' = None
    /\ UNCHANGED <<session_id, panelSessions, loginsSent>>
    /\ UNCHANGED <<botVars, cfgVars, submitVars>>

(* http_login: the Core/Login request is posted *)
http_login(c) ==
    /\ http[c].pc = "http_login"
    /\ loginsSent < MaxLogins
    /\ loginsSent' = loginsSent + 1
    /\ http' = [http EXCEPT ![c].pc = "login_response",
                            ![c].login = loginsSent + 1,
                            ![c].logins = @ + 1]
    /\ returned' = None
    /\ UNCHANGED <<session_id, panelSessions>>
    /\ UNCHANGED <<botVars, cfgVars, submitVars>>

LoginAnswers == {"sessionID", "no_session_id", "non200", "exception"}

(* http_login from the response on: a 200 stores whatever sessionID the   *)
(* body carries (None when it carries none); the call goes on when one    *)
(* was stored and gives up otherwise                                       *)
login_response(c, answer) ==
    /\ http[c].pc = "login_response"
    /\ session_id' =
           CASE answer = "sessionID" -> Some(http[c].login)
             [] answer = "no_session_id" -> None
             [] OTHER -> session_id
    /\ panelSessions' =
           IF answer = "sessionID" THEN panelSessions \cup {http[c].login}
           ELSE panelSessions
    /\ http' = [http EXCEPT ![c] =
           IF answer = "sessionID" THEN [http[c] EXCEPT !.pc = "post"]
           ELSE IdleCall]
    /\ returned' =
           IF answer = "sessionID" THEN None
           ELSE Return(http[c], FALSE, None, Failure(http[c].op))
    /\ UNCHANGED loginsSent
    /\ UNCHANGED <<botVars, cfgVars, submitVars>>

(* the request is built with the session token stored at that moment and  *)
(* posted                                                                  *)
post(c) ==
    /\ http[c].pc = "post"
    /\ http' = [http EXCEPT ![c].pc = "response",
                            ![c].token = session_id,
                            ![c].posts = @ + 1]
    /\ returned' = None
    /\ UNCHANGED <<session_id, panelSessions, loginsSent>>
    /\ UNCHANGED <<botVars, cfgVars, submitVars>>

(* http_create_instance: the answer to DeployTemplate and the return *)
deploy_response(c, response) ==
    /\ http[c].pc = "response"
    /\ http[c].op = "http_create_instance"
    /\ ~Accepted(http[c].token) => response \in Unauthorized
    /\ http' = [http EXCEPT ![c] = IdleCall]
    /\ returned' = Return(http[c], Accepted(http[c].token),
                          Some(response),
                          deploy_result(response,
                                        instance_name(42, "minecraft")))
    /\ UNCHANGED <<session_id, panelSessions, loginsSent>>
    /\ UNCHANGED <<botVars, cfgVars, submitVars>>

(* http_get_instances: the answer to GetInstances and the return *)
instances_response(c, response) ==
    /\ http[c].pc = "response"
    /\ http[c].op = "http_get_instances"
    /\ ~Accepted(http[c].token) => response \in Unauthorized
    /\ http' = [http EXCEPT ![c] = IdleCall]
    /\ returned' = Return(http[c], Accepted(http[c].token), Some(response),
                          instances_result(response))
    /\ UNCHANGED <<session_id, panelSessions, loginsSent>>
    /\ UNCHANGED <<botVars, cfgVars, submitVars>>

(* the panel drops a session (its timeout, or a restart of the panel) *)
session_expires(token) ==
    /\ token \in panelSessions
    /\ panelSessions' = panelSessions \ {token}
    /\ returned' = None
    /\ UNCHANGED <<session_id, loginsSent, http>>
    /\ UNCHANGED <<botVars, cfgVars, submitVars>>

(* http_logout: posts Core/Logout when a token is stored and clears the   *)
(* token whatever the answer                                               *)
http_logout(ok) ==
    /\ session_id # None
    /\ session_id' = None
    /\ panelSessions' =
           IF ok THEN panelSessions \ {session_id[1]} ELSE panelSessions
    /\ returned' = None
    /\ UNCHANGED <<loginsSent, http>>
    /\ UNCHANGED <<botVars, cfgVars, submitVars>>

HttpNext ==
    \/ \E c \in Callers, op \in HttpOps : http_call(c, op)
    \/ \E c \in Callers : http_login(c)
    \/ \E c \in Callers, answer \in LoginAnswers : login_response(c, answer)
    \/ \E c \in Callers : post(c)
    \/ \E c \in Callers, response \in DeployResponses \cup {NoAnswer} :
           deploy_response(c, response)
    \/ \E c \in Callers, response \in InstancesResponses \cup {NoAnswer} :
           instances_response(c, response)
    \/ \E token \in 1..MaxLogins : session_expires(token)
    \/ \E ok \in BOOLEAN : http_logout(ok)

HttpSpec == Init /\ [][HttpNext]_vars

----------------------------------------------------------------------------
(* Properties *)

Rows == DOMAIN requests

Terminal == {APPROVED, REJECTED, "cancelled", EXPIRED}

(* the status a handler in flight is about to write *)
Target(a) == IF task[a].op = "approve" THEN APPROVED ELSE REJECTED

(* a handler in flight makes its write in this step *)
Writes(a) ==
    /\ task[a].pc \in {"update_request_status", "modal"}
    /\ task'[a].pc = "idle"

LedgerHas(h) == \E row \in amp_users : row.amp_username = h

(* C1: once a request's status is approved, rejected, cancelled or        *)
(* expired, no step changes that status                                    *)
C1_TerminalStatusIsFinal ==
    [][\A r \in Rows :
          requests[r].status \in Terminal
              => requests'[r].status = requests[r].status]_vars

(* C2: when a handler makes its write after a conflicting decision has    *)
(* already been stored for the request (it read the request as pending,   *)
(* another operation decided it meanwhile), the write changes nothing and  *)
(* the handler answers with a conflict: only one of the two changes the   *)
(* row                                                                     *)
C2_ConflictingDecisionsOneWinner ==
    [][\A a \in Admins :
          (Writes(a) /\ requests[task[a].rid].status \notin
                            {PENDING, Target(a)})
              => /\ requests' = requests
                 /\ reply'.outcome = "conflict"]_vars

(* C3: a request row whose status is not pending is left unchanged by     *)
(* every step: each decision operation applied to it is refused           *)
C3_DecidedRowsAreNotRewritten ==
    [][\A r \in Rows :
          requests[r].status # PENDING => requests'[r] = requests[r]]_vars

(* C4: when _process_approval obtained the account and the deployment     *)
(* failed, the request is stored as approved with amp_user_id set and     *)
(* amp_instance_id unset, and the answer is not the full-success one      *)
C4_PartialApprovalIsPersisted ==
    [][\A a \in Admins :
          (task[a].pc = "create_instance" /\ task'[a].pc = "idle")
              => /\ requests'[task[a].rid].status = APPROVED
                 /\ requests'[task[a].rid].amp_user_id =
                        Some(task[a].amp_user[1].username)
                 /\ requests'[task[a].rid].amp_instance_id = None
                 /\ reply'.outcome # "approved"]_vars

NoApproveInFlight == \A a \in Admins : task[a].op # "approve"

AccountRecorded(h) ==
    \/ LedgerHas(h)
    \/ \E r \in Rows : requests[r].amp_user_id = Some(h)

(* C5: while no approve is in flight, every account that exists on the    *)
(* panel is recorded in the ledger or in a request's amp_user_id, and     *)
(* every started deployment's handle is its request's amp_instance_id     *)
C5_PanelObjectsAreRecorded ==
    NoApproveInFlight =>
        /\ \A h \in panelUsers : AccountRecorded(h)
        /\ \A d \in instances :
               requests[d.rid].amp_instance_id = Some(d.handle)

(* C6: at most one deployment is started per request *)
C6_OneDeploymentPerRequest ==
    \A r \in Rows : Cardinality({d \in instances : d.rid = r}) <= 1

(* C7: no Core.create_user call is sent by a create_user invocation that  *)
(* began after an earlier creation call for the same handle had returned  *)
(* success (either shape), a timeout or 'already exists'                  *)
C7_OneCreationCallPerHandle ==
    [][\A a \in Admins :
          (task[a].pc = "core_create_user" /\ task'[a].pc # "core_create_user")
              => ~task[a].seen]_vars

(* C8 as stated: processed_at and processed_by are both set exactly when  *)
(* the status is not pending                                               *)
C8_ProcessedFieldsIffDecided ==
    \A r \in Rows :
        /\ requests[r].processed_at # None <=> requests[r].status # PENDING
        /\ requests[r].processed_by # None <=> requests[r].status # PENDING

(* C8 amended: processed_at is set exactly when the status is not         *)
(* pending; processed_by is set exactly when the status is approved or    *)
(* rejected (the sweep records no deciding admin)                          *)
C8_ProcessedFieldsByStatus ==
    \A r \in Rows :
        /\ requests[r].processed_at # None <=> requests[r].status # PENDING
        /\ requests[r].processed_by # None
               <=> requests[r].status \in {APPROVED, REJECTED}

(* C8 witness: the sweep has expired a request *)
C8_SomeRequestExpired ==
    \E r \in Rows :
        /\ requests[r].status = EXPIRED
        /\ requests[r].processed_at # None
        /\ requests[r].processed_by = None

(* C9: a request has amp_user_id or amp_instance_id set only if its       *)
(* status is approved                                                      *)
C9_HandlesOnlyWhenApproved ==
    \A r \in Rows :
        (requests[r].amp_user_id # None \/ requests[r].amp_instance_id # None)
            => requests[r].status = APPROVED

(* C9 witness: a request that was approved with both handles has since    *)
(* been rejected, which cleared them                                       *)
C9_ApprovedThenRejected ==
    \E r \in Rows, d \in instances :
        /\ d.rid = r
        /\ requests[r].status = REJECTED
        /\ requests[r].amp_user_id = None
        /\ NoApproveInFlight

(* the step in which create_user makes its ledger check for admin a *)
LedgerCheck(a) == task[a].pc = "create_user" /\ task'[a].pc # "create_user"

RedactedFromLedger(a) ==
    /\ task'[a].pc = "create_instance"
    /\ task'[a].amp_user = Some(ExistingUser(Handle(a), "ledger"))
    /\ task'[a].amp_user[1].password = "[EXISTING]"
    /\ UNCHANGED <<amp_users, panelUsers, createReturned, instances>>

(* C10 as stated: whenever the ledger contains the handle, create_user    *)
(* returns the redacted account, calls the panel for nothing and leaves   *)
(* the ledger unchanged                                                    *)
C10_LedgerHitReturnsRedacted ==
    [][\A a \in Admins :
          (LedgerCheck(a) /\ LedgerHas(Handle(a)))
              => RedactedFromLedger(a)]_vars

(* C10 amended: the same, provided the service is connected to the panel  *)
(* when create_user runs                                                   *)
C10_ConnectedLedgerHitReturnsRedacted ==
    [][\A a \in Admins :
          (LedgerCheck(a) /\ LedgerHas(Handle(a)) /\ connected')
              => RedactedFromLedger(a)]_vars

(* C10 witness: create_user has returned the redacted account from the    *)
(* ledger                                                                  *)
C10_ReturnedFromLedger ==
    \E a \in Admins :
        /\ task[a].pc = "create_instance"
        /\ task[a].amp_user = Some(ExistingUser(Handle(a), "ledger"))
        /\ LedgerHas(Handle(a))

----------------------------------------------------------------------------
(* create_user: the outcomes of the creation call *)

(* admin a's create_user makes its Core.create_user call in this step and *)
(* the call ends with the given outcome                                    *)
CreationStep(a, outcome) ==
    /\ task[a].pc = "core_create_user"
    /\ task'[a].pc # "core_create_user"
    /\ panel'.method = "Core.create_user"
    /\ panel'.outcome = outcome

(* create_user returns an account whose password field is as given *)
ReturnsAccount(a, password) ==
    /\ task'[a].pc = "create_instance"
    /\ task'[a].amp_user # None
    /\ task'[a].amp_user[1].username = Handle(a)
    /\ task'[a].amp_user[1].password = password

(* create_user returns None: _process_approval gives (False, None, None) *)
ReturnsNoAccount(a) ==
    /\ task'[a].pc = "idle"
    /\ reply' = Reply("failed", NoResult)

LedgerHasAfter(h) == \E row \in amp_users' : row.amp_username = h

(* C11: when the creation call times out, create_user records the handle  *)
(* in the ledger and returns the account with the secret redacted         *)
C11_TimeoutIsPresumedSuccess ==
    [][\A a \in Admins :
          CreationStep(a, "timeout")
              => /\ LedgerHasAfter(Handle(a))
                 /\ ReturnsAccount(a, "[EXISTING]")]_vars

(* C11 witness: an account returned after a creation timeout *)
C11_TimeoutReturned ==
    \E a \in Admins :
        /\ panel = Call("Core.create_user", "timeout", NoError, FALSE)
        /\ task[a].pc = "create_instance"
        /\ task[a].amp_user = Some(ExistingUser(Handle(a), "timeout"))
        /\ LedgerHas(Handle(a))

(* C12: when the creation call reports success, as a None result or as an *)
(* ActionResult with status true, create_user pushes the generated        *)
(* password to the panel, records the handle in the ledger and returns    *)
(* the account with that password                                          *)
C12_SuccessPushesRecordsReturns ==
    [][\A a \in Admins :
          (CreationStep(a, "None") \/ CreationStep(a, "ActionResult"))
              => /\ panel'.pushed
                 /\ LedgerHasAfter(Handle(a))
                 /\ ReturnsAccount(a, "generated")]_vars

(* the creation call of this step ended with an error that is neither a   *)
(* timeout nor an 'already exists' error                                   *)
OtherErrorStep(a) ==
    \/ CreationStep(a, "status_false")
    \/ CreationStep(a, "raised") /\ panel'.error \notin AlreadyExistsErrors

(* C13: a creation error that is neither a timeout nor an 'already        *)
(* exists' error makes create_user return no account and leaves the       *)
(* ledger unchanged                                                        *)
C13_OtherErrorsFail ==
    [][\A a \in Admins :
          OtherErrorStep(a)
              => /\ ReturnsNoAccount(a)
                 /\ amp_users' = amp_users]_vars

(* C14: an 'already exists' error from the creation call is recorded in   *)
(* the ledger and answered with the redacted account, and no other        *)
(* exception is                                                            *)
C14_OnlyAlreadyExistsIsNormalized ==
    [][\A a \in Admins :
          CreationStep(a, "raised")
              => IF panel'.error \in AlreadyExistsErrors
                 THEN /\ LedgerHasAfter(Handle(a))
                      /\ ReturnsAccount(a, "[EXISTING]")
                 ELSE ~ReturnsAccount(a, "[EXISTING]")]_vars

----------------------------------------------------------------------------
(* _process_approval: the credentials and the deployment *)

(* admin a's create_instance call ends in this step *)
DeployStep(a) ==
    /\ task[a].pc = "create_instance"
    /\ task'[a].pc # "create_instance"
    /\ panel'.method = "ADSModule.DeployTemplate"

(* C15: when create_user returned a generated password, the approval      *)
(* delivers it to the requester, whether the deployment starts or fails   *)
C15_GeneratedSecretIsDelivered ==
    [][\A a \in Admins :
          (DeployStep(a) /\ task[a].amp_user[1].password = "generated")
              => /\ dm' # None
                 /\ dm'[1].to = Requester(a)
                 /\ dm'[1].password = "generated"]_vars

(* C17: a timeout or transport error of the deployment is a failure: the  *)
(* approval does not report success, no row is written, no instance is    *)
(* counted as started and no credentials are sent                          *)
C17_DeployTimeoutIsFailure ==
    [][\A a \in Admins :
          (DeployStep(a) /\ panel'.outcome = "timeout")
              => /\ task'[a].pc = "idle"
                 /\ reply'.outcome = "failed"
                 /\ reply'.result[1] = FALSE
                 /\ reply'.result[3] = None
                 /\ requests' = requests
                 /\ instances' = instances
                 /\ dm' = None]_vars

(* C17 witness: a deployment has timed out and the approval has failed    *)
(* with the account's name and no instance                                 *)
C17_DeployTimedOut ==
    /\ panel = Call("ADSModule.DeployTemplate", "timeout", NoError, FALSE)
    /\ reply.outcome = "failed"
    /\ reply.result[2] # None
    /\ \E r \in Rows : requests[r].status = PENDING

----------------------------------------------------------------------------
(* the HTTP transport *)

(* the panel's answer is parseable and carries a success flag, Status =   *)
(* "Running" or a task Id                                                  *)
Acknowledged(response) ==
    /\ response.status = 200
    /\ response.kind = "object"
    /\ \/ response.success = Some(TRUE)
       \/ response.Status = Some("Running")
       \/ response.Id \notin {None, Some("")}

(* C16: http_create_instance returns an instance with status              *)
(* 'deploying_template' exactly when the response is parseable and        *)
(* carries a success flag, Status = 'Running' or a task Id; any other     *)
(* acknowledgement, status or unparseable body gives no instance          *)
C16_StartedIffAcknowledged ==
    (/\ returned # None
     /\ returned[1].op = "http_create_instance"
     /\ returned[1].response # None)
        => LET result == returned[1].result
               started == /\ result # None
                          /\ result[1].status = "deploying_template"
           IN started <=> Acknowledged(returned[1].response[1])

(* C18: a call whose request the panel refused because the session token  *)
(* it carried is not valid returns only after one re-login and one retry  *)
C18_ReloginAndRetryOnce ==
    (/\ returned # None
     /\ returned[1].response # None
     /\ ~returned[1].accepted)
        => /\ returned[1].posts = 2
           /\ returned[1].logins >= 1

(* C19: a login request is sent only while no token is stored and no      *)
(* other login is in flight, and a login's answer never replaces a token  *)
(* that another login stored                                               *)
C19_OneSharedLogin ==
    [][\A c \in Callers :
          /\ (http[c].pc = "http_login" /\ http'[c].pc = "login_response")
                 => /\ session_id = None
                    /\ \A d \in Callers : http[d].pc # "login_response"
          /\ (http[c].pc = "login_response" /\ http'[c].pc # "login_response")
                 => (session_id = None \/ session_id' = session_id)]_vars

----------------------------------------------------------------------------
(* Submissions and the quota *)

(* a step in which a submit handler answers requester u *)
SubmitStep(u) ==
    /\ reply'.outcome \in {"submitted", "quota", "duplicate"}
    /\ reply'.user_id = u

(* the step appends one pending row of u for the game answered about *)
CreatesPendingRow(u) ==
    /\ Len(requests') = Len(requests) + 1
    /\ SubSeq(requests', 1, Len(requests)) = requests
    /\ requests'[Len(requests')].user_id = u
    /\ requests'[Len(requests')].game_name = reply'.game_name
    /\ requests'[Len(requests')].status = PENDING
    /\ reply'.outcome = "submitted"

(* the step refuses the submission and leaves the table alone *)
RefusesSubmission(outcome) ==
    /\ reply'.outcome = outcome
    /\ requests' = requests

(* u already has a pending request for the game answered about *)
HasPendingFor(u) ==
    \E i \in PendingOf(u) : requests[i].game_name = reply'.game_name

C21_SameDuplicatePolicy ==
    \A u \in Users, g \in AVAILABLE_GAMES :
        (\E i \in PendingOf(u) : requests[i].game_name = g) =>
            ((button_answer(u, g) = "submitted")
                 <=> (slash_answer(u, game_lower(g)) = "submitted"))

----------------------------------------------------------------------------
(* Cancellation *)

(* C22: cancel_request issued by the owning requester on a pending       *)
(* request moves it to the terminal status cancelled, after which it no  *)
(* longer counts toward the requester's quota and cannot be decided      *)
C22_OwnerCancelMovesToCancelled ==
    [][\A u \in Cancellers, rid \in 1..MaxSubmits :
          (/\ rid \in DOMAIN requests
           /\ requests[rid].user_id = u
           /\ requests[rid].status = PENDING
           /\ cancel_request(u, rid))
              => /\ requests'[rid].status = "cancelled"
                 /\ Cardinality({i \in DOMAIN requests' :
                        /\ requests'[i].user_id = u
                        /\ requests'[i].status = PENDING})
                        = Cardinality(PendingOf(u)) - 1]_vars

(* C23: cancel_request issued by a user who is not the request's         *)
(* requester, or for an unknown request id, is refused and leaves every  *)
(* request row unchanged                                                   *)
C23_StrangerOrUnknownIdRefused ==
    [][\A u \in Cancellers, rid \in 1..MaxSubmits :
          cancel_request(u, rid) =>
              IF rid \notin DOMAIN requests
              THEN reply'.outcome = "not_found" /\ requests' = requests
              ELSE requests[rid].user_id # u
                       => /\ reply'.outcome = "access_denied"
                          /\ requests' = requests]_vars

(* a user who is not the requester has been refused the cancellation of  *)
(* a pending request                                                       *)
C23_StrangerRefused ==
    /\ reply = Reply("access_denied", NoResult)
    /\ \E i \in DOMAIN requests :
           requests[i].status = PENDING /\ requests[i].user_id \in Users

----------------------------------------------------------------------------
(* The sweep *)

(* a step that expires some request *)
SweepStep ==
    \E r \in DOMAIN requests :
        requests[r].status # EXPIRED /\ requests'[r].status = EXPIRED

(* what the sweep is to take at this moment *)
Stale(r) ==
    /\ requests[r].status = PENDING
    /\ requests[r].requested_at < now - request_timeout_hours

(* C24: a sweep changes exactly the requests that are pending and older  *)
(* than the cutoff, setting them to expired with a decision timestamp;   *)
(* every other request is left unchanged, also when another handler      *)
(* moved it out of pending first                                           *)
C24_SweepTakesExactlyTheStale ==
    [][SweepStep =>
          /\ DOMAIN requests' = DOMAIN requests
          /\ \A r \in DOMAIN requests :
                 requests'[r] =
                     IF Stale(r)
                     THEN [requests[r] EXCEPT !.status = EXPIRED,
                                              !.processed_at = Some(now)]
                     ELSE requests[r]]_vars

(* a sweep has expired one request and skipped another that was as old   *)
(* and had been decided before                                             *)
C24_SweptPastDecided ==
    \E r1, r2 \in DOMAIN requests :
        /\ requests[r1].status = EXPIRED
        /\ requests[r2].status \in {APPROVED, REJECTED}
        /\ requests[r2].requested_at = requests[r1].requested_at
        /\ requests[r2].processed_at # None
        /\ requests[r2].processed_at[1] < requests[r1].processed_at[1]

(* C25: two sweeps in succession with the same threshold expire each     *)
(* eligible request exactly once: the first call returns the number of   *)
(* requests it expired, the second changes no row and returns 0           *)
C25_SecondSweepReturnsZero ==
    LET first == expire_old_requests(requests, request_timeout_hours, now)
        second == expire_old_requests(first, request_timeout_hours, now)
        eligible == {r \in DOMAIN requests : Stale(r)}
    IN /\ \A r \in eligible : first[r].status = EXPIRED
       /\ expire_old_requests_return(requests, request_timeout_hours, now)
              = Some(Cardinality(eligible))
       /\ second = first
       /\ expire_old_requests_return(first, request_timeout_hours, now)
              = Some(0)

(* C26: with the hourly sweep scheduled fairly, every request that stays *)
(* pending past request_timeout_hours eventually leaves pending (the     *)
(* sweep expires it unless a decision comes first); a sweep run that      *)
(* raises does not prevent the later runs                                  *)
C26_StaleEventuallyLeavesPending ==
    \A r \in 1..MaxSwept :
        (r \in DOMAIN requests /\ Stale(r))
            ~> (r \in DOMAIN requests /\ requests[r].status # PENDING)

(* the sweep has expired a request that nobody decided, a timeout after  *)
(* its submission                                                          *)
C26_ExpiredAfterTimeout ==
    \E r \in DOMAIN requests :
        /\ requests[r].status = EXPIRED
        /\ requests[r].processed_by = None
        /\ requests[r].processed_at # None
        /\ requests[r].processed_at[1] - requests[r].requested_at
               > request_timeout_hours

----------------------------------------------------------------------------
(* Decisions *)

(* admin a's approve handler writes its decision in this step *)
ApproveWrite(a) ==
    /\ task[a].op = "approve"
    /\ task[a].pc = "update_request_status"
    /\ task'[a] = IdleTask

(* C27: a submitted request whose approval had both provisioning steps   *)
(* succeed ends with status approved, processed_by the approving admin,  *)
(* processed_at not before requested_at, both handles set, and a          *)
(* full-success result                                                     *)
C27_ApprovedRoundTrip ==
    [][\A a \in Admins :
          ApproveWrite(a) =>
              LET row == requests'[task[a].rid]
              IN /\ row.status = APPROVED
                 /\ row.processed_by = Some(a)
                 /\ row.processed_at # None
                 /\ row.processed_at[1] >= row.requested_at
                 /\ row.amp_user_id # None
                 /\ row.amp_instance_id # None
                 /\ reply'.outcome = "approved"
                 /\ reply'.result =
                        <<TRUE, row.amp_user_id, row.amp_instance_id>>]_vars

(* an approval has just ended in full success *)
C27_ApprovedInFull ==
    /\ reply.outcome = "approved"
    /\ reply.result[1] = TRUE
    /\ \E r \in DOMAIN requests :
           /\ requests[r].status = APPROVED
           /\ requests[r].processed_by # None
           /\ <<TRUE, requests[r].amp_user_id, requests[r].amp_instance_id>>
                  = reply.result

RejectOps == {"RejectionModal", "deny_request_slash"}

(* a step of one of admin a's reject handlers *)
RejectHandlerStep(a) ==
    /\ task'[a] # task[a]
    /\ task[a].op \in RejectOps \/ task'[a].op \in RejectOps

(* admin a's reject handler writes its decision in this step *)
RejectWrite(a) == task[a].op \in RejectOps /\ task'[a] = IdleTask

(* C28: reject (deny_request_slash or RejectionModal.on_submit) on a     *)
(* pending request sets status to rejected, notes to the given reason    *)
(* and processed_by to the rejecting admin, and is a pure state          *)
(* transition: no call to the panel, nothing written to the ledger        *)
C28_RejectIsPureTransition ==
    [][\A a \in Admins :
          /\ RejectHandlerStep(a) =>
                 /\ panel' = NoCall
                 /\ dm' = None
                 /\ amp_users' = amp_users
                 /\ panelUsers' = panelUsers
                 /\ createReturned' = createReturned
                 /\ instances' = instances
          /\ RejectWrite(a) =>
                 LET row == requests'[task[a].rid]
                 IN /\ row.status = REJECTED
                    /\ row.processed_by = Some(a)
                    /\ row.notes \in {Some(reason) : reason \in Reasons}
                    /\ task[a].reason # None => row.notes = task[a].reason
                    /\ \A r \in DOMAIN requests :
                           r # task[a].rid => requests'[r] = requests[r]]_vars

(* a pending request has just been rejected with a reason *)
C28_RejectedWithReason ==
    /\ reply.outcome \in {"rejected", "denied"}
    /\ \E r \in DOMAIN requests :
           /\ requests[r].status = REJECTED
           /\ requests[r].notes = Some("insufficient quota")
           /\ requests[r].processed_by # None
           /\ requests[r].processed_at = Some(now)

(* the request admin a's approve handler would load is unknown, decided  *)
(* or for a game without a catalog entry                                   *)
NotApprovable(rid) ==
    \/ rid \notin DOMAIN requests
    \/ requests[rid].status # PENDING
    \/ requests[rid].game_name \notin AVAILABLE_GAMES

(* C29: approve on an unknown request id, on a request that is not       *)
(* pending, or on a request whose game has no catalog entry fails        *)
(* without any panel call and without changing the request row or the    *)
(* ledger                                                                  *)
C29_ApproveRefusedEarly ==
    [][\A a \in Admins, rid \in 1..MaxStored + 1, cached \in BOOLEAN :
          (NotApprovable(rid) /\ ApproveLoad(a, rid, cached)) =>
              /\ reply'.outcome \in {"not_found", "already", "no_game"}
              /\ reply'.outcome = "not_found" <=> rid \notin DOMAIN requests
              /\ task' = task
              /\ panel' = NoCall
              /\ requests' = requests
              /\ amp_users' = amp_users
              /\ panelUsers' = panelUsers]_vars

(* an approval of a pending request for a game that has no catalog entry *)
(* has been refused                                                        *)
C29_RefusedForUnknownGame ==
    /\ reply = Reply("no_game", NoResult)
    /\ \E r \in DOMAIN requests :
           /\ requests[r].status = PENDING
           /\ requests[r].game_name \notin AVAILABLE_GAMES
    /\ \A a \in Admins : task[a] = IdleTask

----------------------------------------------------------------------------
(* The table *)

(* C30: requests are never deleted and ids are never reused: the set of  *)
(* stored ids only grows, every id keeps denoting the request it was     *)
(* given to, and each create_request returns an id greater than every    *)
(* id before it, for a request in status pending                          *)
C30_IdsOnlyGrow ==
    [][/\ DOMAIN requests \subseteq DOMAIN requests'
       /\ \A r \in DOMAIN requests :
              /\ requests'[r].user_id = requests[r].user_id
              /\ requests'[r].game_name = requests[r].game_name
              /\ requests'[r].requested_at = requests[r].requested_at
       /\ (reply'.outcome = "submitted" \/ DOMAIN requests' # DOMAIN requests)
              => /\ DOMAIN requests' = DOMAIN requests \cup {Len(requests) + 1}
                 /\ \A r \in DOMAIN requests : Len(requests') > r
                 /\ requests'[Len(requests')].status = PENDING
                 /\ reply'.outcome = "submitted"]_vars

(* a request has been given the next id after an earlier one had left    *)
(* pending                                                                 *)
C30_NextIdAfterDecision ==
    /\ reply.outcome = "submitted"
    /\ Len(requests) >= 2
    /\ requests[Len(requests)].status = PENDING
    /\ requests[Len(requests) - 1].status # PENDING

----------------------------------------------------------------------------
(* Templates *)

(* C31: update_template_id changes only the in-memory mapping: the next  *)
(* deployment of that game uses the new template id, the template ids of *)
(* all other games are unchanged, and after a process restart every      *)
(* template id is the built-in default again                              *)
C31_TemplateUpdateIsInMemoryOnly ==
    [][/\ reply'.outcome = "template_updated" =>
              LET game == game_lower(reply'.result[1])
              IN /\ get_template_id(TEMPLATE_IDS', game) = reply'.result[3]
                 /\ \A g \in AVAILABLE_GAMES \ {game} :
                        get_template_id(TEMPLATE_IDS', g)
                            = get_template_id(TEMPLATE_IDS, g)
                 /\ requests' = requests
                 /\ amp_users' = amp_users
       /\ payload' # None =>
              /\ payload'[1].TemplateID
                     = get_template_id(TEMPLATE_IDS, payload'[1].template)
              /\ TEMPLATE_IDS' = TEMPLATE_IDS
       /\ reply'.outcome = "started" =>
              \A g \in AVAILABLE_GAMES :
                  get_template_id(TEMPLATE_IDS', g) = BuiltInTemplates[g]]_vars

(* a deployment of minecraft has used a template id set with /templates  *)
(* while the other games keep their built-in ids                          *)
C31_DeployedWithUpdatedTemplate ==
    /\ payload # None
    /\ payload[1].template = "minecraft"
    /\ payload[1].TemplateID # BuiltInTemplates["minecraft"]
    /\ \A g \in AVAILABLE_GAMES \ {"minecraft"} :
           get_template_id(TEMPLATE_IDS, g) = BuiltInTemplates[g]

----------------------------------------------------------------------------
(* The ledger *)

(* C32: in every reachable state the ledger holds at most one row per    *)
(* requester and at most one row per account handle, whatever sequence   *)
(* of create_amp_user_record calls has occurred                           *)
C32_LedgerOneRowPerRequesterAndHandle ==
    \A r1, r2 \in amp_users :
        (\/ r1.discord_user_id = r2.discord_user_id
         \/ r1.amp_username = r2.amp_username) => r1 = r2

(* a call has replaced a row while the ledger holds a row for every      *)
(* handle, one of them a handle two members derive                        *)
C32_RowReplacedInFullLedger ==
    /\ reply.outcome = "replaced"
    /\ Cardinality(amp_users) = Cardinality(LedgerHandles)
    /\ \E row \in amp_users :
           /\ row.amp_username = reply.result[2][1]
           /\ row.amp_username = amp_username(44)
           /\ row.discord_user_id = 45

(* C36: two distinct requesters are never mapped to the same panel       *)
(* account: the handles derived in _process_approval differ for distinct *)
(* members, so two approved requests of different requesters never carry *)
(* the same amp_user_id                                                   *)
C36_DistinctRequestersDistinctAccounts ==
    \A i, j \in DOMAIN requests :
        (/\ requests[i].status = APPROVED
         /\ requests[j].status = APPROVED
         /\ requests[i].user_id # requests[j].user_id)
            => /\ amp_username(requests[i].user_id)
                      # amp_username(requests[j].user_id)
               /\ requests[i].amp_user_id # requests[j].amp_user_id

(* C37: whenever a request is stored as approved with amp_user_id = h,   *)
(* the ledger contains a row mapping that request's requester to h       *)
C37_ApprovedAccountIsInLedger ==
    \A i \in DOMAIN requests :
        (requests[i].status = APPROVED /\ requests[i].amp_user_id # None)
            => [discord_user_id |-> requests[i].user_id,
                amp_username |-> requests[i].amp_user_id[1]] \in amp_users

----------------------------------------------------------------------------
(* _process_approval: the order of the two panel operations *)

CreateStages == {"create_user", "get_user_info", "core_create_user"}

DeployCall == "ADSModule.DeployTemplate"

(* C33: within one approve the deploy call is issued only after          *)
(* create_user has returned an account; if create_user returns no        *)
(* account, no deploy call is issued and no credentials are sent         *)
C33_DeployOnlyAfterAccount ==
    [][/\ \A a \in Admins :
              task[a].pc \in CreateStages =>
                  /\ task[a].amp_user = None
                  /\ task[a].instance = None
       /\ panel'.method = DeployCall =>
              \E a \in Admins :
                  /\ task[a].pc = "create_instance"
                  /\ task[a].amp_user # None
                  /\ task'[a] # task[a]
                  /\ \A b \in Admins \ {a} : task'[b] = task[b]
       /\ \A a \in Admins :
              (task[a].pc \in CreateStages
                   /\ task'[a].pc \notin CreateStages \cup {"create_instance"})
                  => /\ task'[a] = IdleTask
                     /\ reply' = Reply("failed", NoResult)
                     /\ panel'.method # DeployCall
                     /\ dm' = None
                     /\ instances' = instances
                     /\ requests' = requests
       /\ (/\ panel'.method = "Core.create_user"
           /\ Branch(panel'.outcome, panel'.error)
                  \in {"error", "status_false"})
              => \E a \in Admins :
                     /\ task[a].pc = "core_create_user"
                     /\ task'[a] = IdleTask
                     /\ reply' = Reply("failed", NoResult)]_vars

(* one approve has failed in create_user for the request of member 45    *)
(* after the other has deployed for its account: the table shows one     *)
(* approved request and one still pending, and one instance exists       *)
C33_FailedBeforeDeploy ==
    /\ reply = Reply("failed", NoResult)
    /\ panel.method = "Core.create_user"
    /\ panel.outcome = "status_false"
    /\ Cardinality(instances) = 1
    /\ \E i, j \in DOMAIN requests :
           /\ requests[i].status = APPROVED
           /\ requests[j].status = PENDING

----------------------------------------------------------------------------
(* The HTTP transport: when a call logs in *)

(* C34: the first HTTP call of a process logs in before issuing the      *)
(* call; after a successful http_login every later call reuses the       *)
(* stored session token without logging in again until http_logout       *)
(* clears it (a call that starts logs in exactly when no token is        *)
(* stored, and a stored token is cleared by http_logout only); a failed  *)
(* login makes the call fail without sending the privileged request      *)
C34_LoginOnceThenReuse ==
    [][/\ \A c \in Callers :
              (http[c].pc = "idle" /\ http'[c].pc # "idle")
                  => (http'[c].pc = "http_login") = (session_id = None)
       /\ \A c \in Callers :
              http'[c].posts > http[c].posts => loginsSent >= 1
       /\ (session_id # None /\ session_id' = None) => http' = http
       /\ \A c \in Callers :
              (http[c].pc = "login_response" /\ http'[c].pc = "idle")
                  => /\ returned' # None
                     /\ returned'[1].posts = 0
                     /\ returned'[1].result = Failure(http[c].op)]_vars

----------------------------------------------------------------------------
(* The quota under concurrent submits *)

(* C35: in every reachable state, including interleavings of concurrent  *)
(* submit callbacks by the same requester, a requester never has more    *)
(* than max_pending_requests_per_user pending requests                   *)
C35_QuotaHoldsUnderConcurrency ==
    \A u \in Users :
        Cardinality(PendingOf(u)) <= max_pending_requests_per_user

----------------------------------------------------------------------------
(* The admin message of a request *)

(* C38: after a submit whose admin notification message is posted, the   *)
(* request row holds that message's id in admin_message_id while its     *)
(* status remains pending, so that after a restart                       *)
(* _register_persistent_views re-attaches the approve and reject         *)
(* handlers for every announced request that is still pending            *)
C38_PendingRowsKeepTheirMessage ==
    \A i \in DOMAIN requests :
        requests[i].status = PENDING
            => /\ requests[i].admin_message_id = Some(i)
               /\ i \in register_persistent_views(requests)

----------------------------------------------------------------------------
(* The columns written at creation *)

CreationFields == {"user_id", "username", "game_name", "requested_at"}

UpdatedFields ==
    {"status", "processed_at", "processed_by", "notes", "amp_user_id",
     "amp_instance_id", "admin_message_id"}

(* C39: no operation after creation changes a request's user_id,         *)
(* username, game_name or requested_at: approve, reject, cancel, the     *)
(* expiry sweep and correlation-id updates modify only status,           *)
(* processed_at, processed_by, notes, amp_user_id, amp_instance_id and   *)
(* admin_message_id                                                       *)
C39_CreationFieldsNeverChange ==
    [][\A r \in DOMAIN requests :
           /\ r \in DOMAIN requests'
           /\ DOMAIN requests'[r] = CreationFields \cup UpdatedFields
           /\ \A f \in CreationFields : requests'[r][f] = requests[r][f]]_vars

(* a request has been decided some hours after it was made: the columns  *)
(* the decision writes are set and the columns of the creation are as    *)
(* create_request wrote them                                              *)
C39_DecidedLaterThanRequested ==
    \E r \in DOMAIN requests :
        /\ requests[r].status \in {APPROVED, REJECTED}
        /\ requests[r].processed_by # None
        /\ requests[r].notes # None
        /\ requests[r].processed_at # None
        /\ requests[r].processed_at[1] > requests[r].requested_at
        /\ requests[r].user_id = 42
        /\ requests[r].username = UserName(42)
        /\ requests[r].game_name = "minecraft"

=============================================================================
